---- MODULE Spec2Model ----
(***************************************************************************)
(* Model of RemoteConfigurator                                             *)
(* (thingsboard_gateway/tb_utility/tb_gateway_remote_configurator.py):     *)
(* the single-flight dispatcher process_config_request, the change         *)
(* detector _is_modified, the per-domain handlers and the connection       *)
(* reconfiguration protocol.                                               *)
(*                                                                         *)
(* Python dicts are functions with a string domain.  A payload that is not *)
(* a dict is wrapped: a string s is [str |-> s], a list l is [list |-> l]. *)
(* Every external call that can raise does so when the run's `fault` names *)
(* its call site (at most one momentary fault per handler run); whether a  *)
(* backend or client can be constructed is a property of the configuration *)
(* it is constructed from.                                                 *)
(***************************************************************************)
EXTENDS Integers, Sequences, FiniteSets, TLC

VARIABLES
    in_process,   \* RemoteConfigurator.in_process
    pc,           \* pc[t]: position of caller t inside process_config_request
    req,          \* req[t]: the keys of t's request still to be iterated, in dict order
    result,       \* result[t]: how t's latest invocation ended
    loc,          \* loc[t]: locals of _handle_general_configuration_update / _apply_connection_config
    store,        \* RemoteConfigurator._config
    files,        \* the files under get_config_path(): name -> [content, mtime]
    backups,      \* the files under backup/, oldest first: [file, at, data]
    gw,           \* the gateway: tb_client, event storage, grpc service, connectors, services
    last,         \* the latest handler run: key, handler, payload, state before it, external calls in order
    net,          \* hosts that accept a connection
    now,          \* wall clock, in ticks
    served,       \* requests handed to process_config_request so far
    boot          \* startup synchronisation: _remote_gateway_version, the pending reply, what was sent

vars == <<in_process, pc, req, result, loc, store, files, backups, gw, last, net, now, served, boot>>

----------------------------------------------------------------------------
(* Bounds *)

NThreads == 2
MaxKeys == 2
MaxClock == 2
MaxRequests == 2

Threads == 1..NThreads

----------------------------------------------------------------------------
(* Python dict operations *)

Has(d, k) == k \in DOMAIN d

\* dict.get(k, default)
Get(d, k, default) == IF k \in DOMAIN d THEN d[k] ELSE default

\* d.update(e)
DictUpdate(d, e) ==
    [k \in DOMAIN d \cup DOMAIN e |-> IF k \in DOMAIN e THEN e[k] ELSE d[k]]

\* d.pop(k) for a key that is present
DictPop(d, k) == [x \in DOMAIN d \ {k} |-> d[x]]

\* d.get(k) == e.get(k), with None for a missing key
SameOpt(d, e, k) ==
    /\ Has(d, k) <=> Has(e, k)
    /\ Has(d, k) => d[k] = e[k]

EmptyDict == [k \in {} |-> k]

\* isinstance(payload, dict): a str or list payload has no .get
IsDict(p) == ~Has(p, "str") /\ ~Has(p, "list")

Min(a, b) == IF a < b THEN a ELSE b

----------------------------------------------------------------------------
(* File names and attribute keys *)

GeneralFile == "tb_gateway.json"
LogsFile == "logs.json"
StatisticsFile == "statistics.json"

NoFile == "None"

\* __init__, lines 52-54
ModifiableStaticAttrs == [logs_configuration |-> LogsFile]

\* the handler table with the catch-all pattern ahead of the named patterns
HandlersCatchAllFirst ==
    << <<"*", "connector">>,
       <<"general_configuration", "general">>,
       <<"storage_configuration", "storage">>,
       <<"grpc_configuration", "grpc">>,
       <<"logs_configuration", "logs">>,
       <<"active_connectors", "active_connectors">>,
       <<"RemoteLoggingLevel", "remote_logging_level">> >>

\* __init__, lines 43-51: (pattern, handler) in dict order; "*" stands for the
\* catch-all pattern (?=\D*\d?).* which fullmatch()es every attribute name
Handlers ==
    << <<"general_configuration", "general">>,
       <<"storage_configuration", "storage">>,
       <<"grpc_configuration", "grpc">>,
       <<"logs_configuration", "logs">>,
       <<"active_connectors", "active_connectors">>,
       <<"RemoteLoggingLevel", "remote_logging_level">>,
       <<"*", "connector">> >>

\* regex.fullmatch(name, attr_name) for the patterns of Handlers
FullMatch(pattern, attr_name) == pattern = "*" \/ pattern = attr_name

\* process_config_request, lines 240-243: the first pattern that matches
RECURSIVE FirstMatch(_, _)
FirstMatch(i, attr_name) ==
    IF i > Len(Handlers) THEN "no_handler"
    ELSE IF FullMatch(Handlers[i][1], attr_name) THEN Handlers[i][2]
    ELSE FirstMatch(i + 1, attr_name)

HandlerOf(attr_name) == FirstMatch(1, attr_name)

\* the attribute names of the model that contain "deleted"
DeletedKeys == {"c1_deleted", "general_configuration_deleted"}

\* process_config_request, line 233: 'deleted' in attr_name
ContainsDeleted(attr_name) == attr_name \in DeletedKeys

----------------------------------------------------------------------------
(* The machine state a handler works on: M = [store, files, backups, gw,   *)
(* trace, exc].  trace lists the external calls of the run in order; exc   *)
(* is the exception leaving the handler ("none" when it returns).          *)

Event(op, arg, data) == [op |-> op, arg |-> arg, data |-> data]

Raise(M, e) == [M EXCEPT !.exc = e]

\* open(path, 'w') ... file.write(dumps(content))
WriteFile(M, name, content) ==
    [M EXCEPT !.files = DictUpdate(@, name :> [content |-> content, mtime |-> now]),
              !.trace = Append(@, Event("write", name, content))]

\* tb_client.client.send_attributes({key: value})
SendAttributes(M, key, value) ==
    [M EXCEPT !.trace = Append(@, Event("send", key, value))]

\* create_configuration_file_backup, lines 638-646
create_configuration_file_backup(M, config_data, config_file_name) ==
    [M EXCEPT !.backups = Append(SelectSeq(@, LAMBDA b : ~(b.file = config_file_name /\ b.at = now)),
                                 [file |-> config_file_name, at |-> now, data |-> config_data]),
              !.trace = Append(@, Event("backup", config_file_name, config_data))]

\* _get_general_config_in_local_format, lines 142-157
LocalFormat(st) ==
    [thingsboard |-> st.thingsboard,
     storage |-> st.storage,
     grpc |-> st.grpc,
     connectors |-> [i \in 1..Len(st.connectors) |->
                        [type |-> st.connectors[i].type,
                         name |-> st.connectors[i].name,
                         configuration |-> st.connectors[i].configuration]]]

\* the with open(... "tb_gateway.json", "w") blocks that dump LocalFormat
WriteGeneralFile(M) == WriteFile(M, GeneralFile, LocalFormat(M.store))

----------------------------------------------------------------------------
(* Change detector *)

\* _is_modified, lines 619-622: config.get('configuration') or the static
\* mapping; a payload without .get raises AttributeError and resolves to None
ResolvedFile(attr_name, config) ==
    IF ~IsDict(config) THEN NoFile
    ELSE IF Has(config, "configuration") THEN config.configuration
    ELSE IF Has(ModifiableStaticAttrs, attr_name) THEN ModifiableStaticAttrs[attr_name]
    ELSE NoFile

\* a change detector that reports every payload modified
IsModifiedAlways(attr_name, config) == TRUE

\* _is_modified with a strict comparison of the timestamp
IsModifiedStrict(attr_name, config) ==
    LET file_path == ResolvedFile(attr_name, config) IN
    IF file_path = NoFile THEN TRUE
    ELSE IF ~Has(files, file_path) THEN TRUE
    ELSE ~(Get(config, "ts", 0) < files[file_path].mtime)

\* _is_modified, lines 618-636
IsModified(attr_name, config) ==
    LET file_path == ResolvedFile(attr_name, config) IN
    IF file_path = NoFile THEN TRUE
    ELSE IF ~Has(files, file_path) THEN TRUE          \* OSError from getmtime
    ELSE ~(Get(config, "ts", 0) <= files[file_path].mtime)

----------------------------------------------------------------------------
(* Handlers without rollback *)

\* _handle_remote_logging_level_update, lines 506-507
handle_remote_logging_level_update(M, config, fault) ==
    IF fault = "send" THEN Raise(M, "Exception")
    ELSE SendAttributes(M, "RemoteLoggingLevel", config)

----------------------------------------------------------------------------
(* The gateway's side of the boundary *)

\* one external call at call site `site`: skipped once an exception is in
\* flight, raising when the run's fault names the site
Call(M, site, fault, Op(_)) ==
    IF M.exc # "none" THEN M
    ELSE IF fault = site THEN Raise(M, "Exception")
    ELSE Op(M)

Names(connectors) == {connectors[i].name : i \in 1..Len(connectors)}

RECURSIVE SeqMinus(_, _)
\* the sequence without the elements of a set, order kept
SeqMinus(seq, S) ==
    IF seq = <<>> THEN <<>>
    ELSE IF Head(seq) \in S THEN SeqMinus(Tail(seq), S)
    ELSE <<Head(seq)>> \o SeqMinus(Tail(seq), S)

Range(seq) == {seq[i] : i \in 1..Len(seq)}

\* gateway.available_connectors[name].close(), for every name of a sequence;
\* the first close raises under fault = site
RECURSIVE CloseAll(_, _, _, _)
CloseAll(M, names, site, fault) ==
    IF M.exc # "none" \/ names = <<>> THEN M
    ELSE IF fault = site THEN Raise(M, "Exception")
    ELSE CloseAll([M EXCEPT !.trace = Append(@, Event("close", Head(names), EmptyDict))],
                  Tail(names), site, fault)

\* gateway.load_connectors(config)
LoadConnectors(M) ==
    [M EXCEPT !.trace = Append(@, Event("load", "connectors", EmptyDict))]

\* gateway.connect_with_connectors(): every connector of the loaded
\* configuration gets a running instance
ConnectWithConnectors(M) ==
    LET listed == [i \in 1..Len(M.store.connectors) |-> M.store.connectors[i].name]
        fresh == SeqMinus(listed, Range(M.gw.available_connectors))
    IN [M EXCEPT !.gw.available_connectors = @ \o fresh,
                 !.trace = Append(@, Event("connect", "connectors", EmptyDict))]

\* load_connectors(...) followed by connect_with_connectors()
Reload(M, loadSite, connectSite, fault) ==
    Call(Call(M, loadSite, fault, LoadConnectors), connectSite, fault, ConnectWithConnectors)

\* gateway.event_storage_types, and the storage configurations whose
\* constructor raises
EventStorageTypes == {"memory", "file"}
StorageConstructs(config) ==
    /\ config.type \in EventStorageTypes
    /\ Get(config, "data_folder_path", "./data/") # "/unwritable/"

\* gateway.init_grpc_service(config) raises for an unusable configuration
GrpcConstructs(config) == Get(config, "serverPort", 9595) # 0

\* logging.config.dictConfig(config) raises for an invalid configuration
LogsValid(config) == IsDict(config) /\ Has(config, "version")

----------------------------------------------------------------------------
(* Storage, GRPC and logs handlers *)

\* the storage handler without its except branch's discard: the pushed
\* section is stored although the new event storage could not be built
storage_update_keeping_failed_config(M, config, fault) ==
    IF ~Has(config, "type") \/ ~StorageConstructs(config)
    THEN [M EXCEPT !.store.storage = DictUpdate(@, config)]
    ELSE LET M1 == [M EXCEPT !.gw.event_storage = config,
                             !.store.storage = DictUpdate(@, config)]
             M2 == Call(M1, "write", fault, WriteGeneralFile)
         IN Call(M2, "send", fault,
                 LAMBDA m : SendAttributes(m, "storage_configuration", m.store.storage))

\* _handle_storage_configuration_update, lines 323-340
handle_storage_configuration_update(M, config, fault) ==
    LET old_event_storage == M.gw.event_storage IN
    IF ~Has(config, "type") \/ ~StorageConstructs(config)
    THEN \* except Exception: the saved instance is put back
         [M EXCEPT !.gw.event_storage = old_event_storage]
    ELSE LET M1 == [M EXCEPT !.gw.event_storage = config,
                             !.store.storage = DictUpdate(@, config)]
             M2 == Call(M1, "write", fault, WriteGeneralFile)
         IN Call(M2, "send", fault,
                 LAMBDA m : SendAttributes(m, "storage_configuration", m.store.storage))

\* _handle_grpc_configuration_update, lines 351-358: the except branch
grpc_revert(M, fault) ==
    LET M0 == [M EXCEPT !.exc = "none"] IN
    IF ~GrpcConstructs(M0.store.grpc) THEN Raise(M0, "Exception")
    ELSE LET M1 == [M0 EXCEPT !.gw.grpc = M0.store.grpc]
             M2 == CloseAll(M1, M1.gw.available_connectors, "revert_close", fault)
         IN Reload(M2, "revert_load", "revert_connect", fault)

\* _handle_grpc_configuration_update, lines 342-365
handle_grpc_configuration_update(M, config, fault) ==
    IF config = M.store.grpc THEN M
    ELSE LET T1 == IF GrpcConstructs(config) THEN [M EXCEPT !.gw.grpc = config]
                   ELSE Raise(M, "Exception")
             T2 == CloseAll(T1, T1.gw.available_connectors, "close", fault)
             T3 == Reload(T2, "load", "connect", fault)
         IN IF T3.exc # "none" THEN grpc_revert(T3, fault)
            ELSE LET M1 == [T3 EXCEPT !.store.grpc = DictUpdate(@, config)]
                     M2 == Call(M1, "write", fault, WriteGeneralFile)
                 IN Call(M2, "send", fault,
                         LAMBDA m : SendAttributes(m, "grpc_configuration", m.store.grpc))

\* _handle_logs_configuration_update, lines 367-388
handle_logs_configuration_update(M, config, fault) ==
    LET T1 == IF LogsValid(config) THEN [M EXCEPT !.gw.logs = config]
              ELSE Raise(M, "Exception")
        T2 == Call(T1, "write", fault, LAMBDA m : WriteFile(m, LogsFile, config))
        T3 == Call(T2, "send", fault,
                   LAMBDA m : SendAttributes(m, "logs_configuration", config))
    IN \* except Exception: logged only
       [T3 EXCEPT !.exc = "none"]

----------------------------------------------------------------------------
(* Active-connector-set handler *)

RECURSIVE SelectNames(_, _)
\* the connector entries whose name is in a set, order kept
SelectNames(connectors, S) ==
    IF connectors = <<>> THEN <<>>
    ELSE IF Head(connectors).name \in S
         THEN <<Head(connectors)>> \o SelectNames(Tail(connectors), S)
         ELSE SelectNames(Tail(connectors), S)

\* _delete_connectors_from_config, lines 595-597
delete_connectors_from_config(M, connector_list) ==
    [M EXCEPT !.store.connectors = SelectNames(@, Range(connector_list))]

RECURSIVE LogCloses(_, _)
LogCloses(M, names) ==
    IF names = <<>> THEN M
    ELSE LogCloses([M EXCEPT !.trace = Append(@, Event("close", Head(names), EmptyDict))],
                   Tail(names))

\* _handle_active_connectors_update, lines 390-413; under fault "close" the
\* first close() raises, which the loop logs and passes over
handle_active_connectors_update(M, config, fault) ==
    LET wanted == Range(config.list)
        to_close == SeqMinus(M.gw.available_connectors, wanted)
        failed == IF fault = "close" /\ to_close # <<>> THEN {Head(to_close)} ELSE {}
        for_deletion == SeqMinus(to_close, failed)
        has_changed == for_deletion # <<>>
        M1 == LogCloses(M, for_deletion)
        M2 == IF has_changed
              THEN Call(delete_connectors_from_config(
                            [M1 EXCEPT !.gw.available_connectors =
                                           SeqMinus(@, Range(for_deletion))],
                            config.list),
                        "write", fault, WriteGeneralFile)
              ELSE M1
    IN Call(M2, "send", fault, LAMBDA m : SendAttributes(m, "active_connectors", config))

----------------------------------------------------------------------------
(* Connector lifecycle handler *)

\* what open(path, 'w') leaves before anything is written
Truncated == [truncated |-> TRUE]

\* open(path, 'w'): the file is created or emptied
OpenForWrite(M, name) ==
    [M EXCEPT !.files = DictUpdate(@, name :> [content |-> Truncated, mtime |-> now]),
              !.trace = Append(@, Event("open_w", name, EmptyDict))]

\* str(dict): the serialisation the content hashes are taken of
Str(d) == {<<k, d[k]>> : k \in DOMAIN d}

\* a comparison that reports every pair of contents as different
HashAlwaysDiffers(a, b) == TRUE

\* hash(str(a)) != hash(str(b)), lines 465-467 (hash taken as collision-free)
HashDiffers(a, b) == Str(a) # Str(b)

\* lines 438-444 and 477-484: the summary entry of a payload
connector_configuration(config) ==
    LET base == [name |-> config.name, type |-> config.type,
                 configuration |-> config.configuration]
        withKey == IF Has(config, "key") THEN DictUpdate(base, [key |-> config.key])
                   ELSE base
    IN IF Has(config, "class") THEN DictUpdate(withKey, [class |-> config.class])
       ELSE withKey

\* config['configurationJson'].update({'logLevel': ..., 'name': ...})
MergedJson(config) ==
    DictUpdate(config.configurationJson, [logLevel |-> config.logLevel, name |-> config.name])

WithMergedJson(config) == [config EXCEPT !.configurationJson = MergedJson(config)]

RECURSIVE IndexOfName(_, _, _)
\* index of the first entry with a name, 0 when there is none (lines 436, 458)
IndexOfName(connectors, name, i) ==
    IF i > Len(connectors) THEN 0
    ELSE IF connectors[i].name = name THEN i
    ELSE IndexOfName(connectors, name, i + 1)

\* a lookup that never finds the payload's name
found_connectors_never(connectors, name) == 0

\* line 436: the entries with the payload's name, as the index of the first
found_connectors(connectors, name) == IndexOfName(connectors, name, 1)

\* with open(file, 'w'): update configurationJson, [backup,] write (lines
\* 446-449 and 489-491); the payload leaves with its configurationJson merged
WriteConnectorFile(M, config, withBackup, fault) ==
    IF fault = "open" THEN [m |-> Raise(M, "OSError"), config |-> config]
    ELSE LET M1 == OpenForWrite(M, config.configuration) IN
         IF ~Has(config, "configurationJson") \/ ~Has(config, "logLevel")
         THEN [m |-> Raise(M1, "KeyError"), config |-> config]
         ELSE LET merged == WithMergedJson(config)
                  M2 == IF withBackup
                        THEN Call(M1, "backup", fault,
                                  LAMBDA m : create_configuration_file_backup(
                                                 m, merged, config.configuration))
                        ELSE M1
              IN [m |-> Call(M2, "never", fault,
                             LAMBDA m : WriteFile(m, config.configuration,
                                                  merged.configurationJson)),
                  config |-> merged]

Ok(M) == M.exc = "none"

\* a new-connector branch that reloads the connectors before it appends the
\* entry and rewrites the general configuration file
connector_new_reload_first(M, config, fault) ==
    IF ~Has(config, "name") \/ ~Has(config, "type")
    THEN [m |-> Raise(M, "KeyError"), config |-> config]
    ELSE LET W == WriteConnectorFile(M, config, TRUE, fault)
             M1 == Reload(W.m, "load", "connect", fault)
             M2 == IF Ok(M1)
                   THEN [M1 EXCEPT !.store.connectors =
                                       Append(@, connector_configuration(config))]
                   ELSE M1
         IN [m |-> Call(M2, "write_general", fault, WriteGeneralFile), config |-> W.config]

\* lines 437-456: no entry has the payload's name
connector_new(M, config, fault) ==
    IF ~Has(config, "name") \/ ~Has(config, "type")
    THEN [m |-> Raise(M, "KeyError"), config |-> config]
    ELSE LET W == WriteConnectorFile(M, config, TRUE, fault)
             M1 == IF Ok(W.m)
                   THEN [W.m EXCEPT !.store.connectors =
                                        Append(@, connector_configuration(config))]
                   ELSE W.m
             M2 == Call(M1, "write_general", fault, WriteGeneralFile)
         IN [m |-> Reload(M2, "load", "connect", fault), config |-> W.config]

\* lines 496-497: close the running instance and drop it
CloseAndPop(M, name, fault) ==
    IF ~Ok(M) THEN M
    ELSE IF name \notin Range(M.gw.available_connectors) THEN Raise(M, "KeyError")
    ELSE IF fault = "close" THEN Raise(M, "Exception")
    ELSE [M EXCEPT !.gw.available_connectors = SeqMinus(@, {name}),
                   !.trace = Append(@, Event("close", name, EmptyDict))]

\* lines 472-475: do the summary fields differ
SummaryDiffers(found_connector, config) ==
    \/ found_connector.name # config.name
    \/ found_connector.type # config.type
    \/ ~SameOpt(found_connector, config, "class")
    \/ ~SameOpt(found_connector, config, "key")
    \/ ~SameOpt(Get(found_connector, "configurationJson", EmptyDict), config, "logLevel")

\* lines 458-500: entry idx has the payload's name
connector_existing(M, config, idx, fault) ==
    LET found_connector == M.store.connectors[idx]
        path == config.configuration
        exists == Has(M.files, path)
    IN
    IF exists /\ M.files[path].content = Truncated
    THEN [m |-> Raise(M, "ValueError"), config |-> config]        \* load(file)
    ELSE IF exists /\ ~Has(config, "configurationJson")
    THEN [m |-> Raise(M, "KeyError"), config |-> config]
    ELSE
    LET differs == exists /\ HashDiffers(M.files[path].content, config.configurationJson)
        M1 == IF differs
              THEN Call(M, "backup", fault,
                        LAMBDA m : create_configuration_file_backup(
                                       m, M.files[path].content, path))
              ELSE M
    IN
    IF ~Ok(M1) THEN [m |-> M1, config |-> config]
    ELSE IF ~Has(config, "type") THEN [m |-> Raise(M1, "KeyError"), config |-> config]
    ELSE
    LET summary == SummaryDiffers(found_connector, config)
        M2 == IF summary
              THEN [M1 EXCEPT !.store.connectors[idx] =
                                  DictUpdate(@, connector_configuration(config))]
              ELSE M1
    IN
    IF ~(differs \/ summary) THEN [m |-> M2, config |-> config]
    ELSE LET W == WriteConnectorFile(M2, config, FALSE, fault)
             M3 == CloseAndPop(W.m, config.name, fault)
         IN [m |-> Reload(M3, "load", "connect", fault), config |-> W.config]

\* _handle_connector_configuration_update, lines 433-502: the try block
connector_try(M, config, fault) ==
    IF ~IsDict(config) THEN Raise(M, "TypeError")
    ELSE IF ~Has(config, "configuration") THEN Raise(M, "KeyError")
    ELSE IF ~Has(config, "name") THEN Raise(M, "KeyError")
    ELSE LET idx == found_connectors(M.store.connectors, config.name)
             A == IF idx = 0 THEN connector_new(M, config, fault)
                  ELSE connector_existing(M, config, idx, fault)
         IN Call(A.m, "send", fault, LAMBDA m : SendAttributes(m, A.config.name, A.config))

\* _handle_connector_configuration_update, lines 415-504; except Exception
\* logs and returns
handle_connector_configuration_update(M, config, fault) ==
    [connector_try(M, config, fault) EXCEPT !.exc = "none"]

----------------------------------------------------------------------------
(* General configuration handler: the sub-steps after the connection step *)

\* RemoteConfigurator.DEFAULT_STATISTICS, lines 31-34
DEFAULT_STATISTICS == [enable |-> TRUE, statsSendPeriodInSeconds |-> 3600]

DEFAULT_DEVICE_FILTERING == [enable |-> FALSE]

\* gateway.init_statistics_service / init_device_filtering / init_remote_shell
\* raise for a configuration they cannot start from
StatisticsStarts(cfg) == cfg.statsSendPeriodInSeconds > 0
DeviceFilteringStarts(cfg) == Get(cfg, "filterFile", "list.json") # "missing.json"
RemoteShellStarts(cfg) == Get(cfg, "shell", "sh") # "none"

\* the commands stored in the statistics file a configuration names
StoredCommands(M, name) == M.files[name].content.commands

\* _check_statistics_configuration_changes, lines 599-613:
\* "changed", "same", or the exception it raises
check_statistics_configuration_changes(M, config) ==
    LET general_statistics_config == Get(M.store.thingsboard, "statistics", DEFAULT_STATISTICS) IN
    IF ~Has(config, "enable") \/ ~Has(config, "statsSendPeriodInSeconds") THEN "KeyError"
    ELSE IF \/ config.enable # general_statistics_config.enable
            \/ config.statsSendPeriodInSeconds #
                   general_statistics_config.statsSendPeriodInSeconds
    THEN "changed"
    ELSE IF /\ Has(general_statistics_config, "configuration")
            /\ ~Has(M.files, general_statistics_config.configuration)
    THEN "OSError"
    ELSE LET commands == IF Has(general_statistics_config, "configuration")
                         THEN StoredCommands(M, general_statistics_config.configuration)
                         ELSE <<>>
         IN IF Get(config, "commands", <<>>) # commands THEN "changed" ELSE "same"

\* _apply_statistics_config, lines 548-569: [m, config, success], config being
\* the statistics dict as the call leaves it
apply_statistics_config(M, config, fault) ==
    LET commands == Get(config, "commands", <<>>)
        named == commands # <<>>
        noStats == named /\ ~Has(M.store.thingsboard, "statistics")
        statistics_conf_file_name ==
            IF named /\ ~noStats
            THEN Get(M.store.thingsboard.statistics, "configuration", StatisticsFile)
            ELSE StatisticsFile
        T1 == IF noStats THEN Raise(M, "KeyError")
              ELSE IF named
              THEN Call(M, "write_stats", fault,
                        LAMBDA m : WriteFile(m, statistics_conf_file_name,
                                             [commands |-> commands]))
              ELSE M
        config1 == IF named /\ Ok(T1)
                   THEN DictUpdate(config, [configuration |-> statistics_conf_file_name])
                   ELSE config
        T2 == IF ~Ok(T1) THEN T1
              ELSE IF ~StatisticsStarts(config1) THEN Raise(T1, "Exception")
              ELSE [T1 EXCEPT !.gw.statistics = config1,
                              !.store.thingsboard =
                                  DictUpdate(@, [statistics |-> config1])]
    IN IF Ok(T2) THEN [m |-> T2, config |-> config1, success |-> TRUE]
       ELSE [m |-> [T2 EXCEPT !.exc = "none",
                              !.gw.statistics =
                                  Get(T2.store.thingsboard, "statistics", DEFAULT_STATISTICS)],
             config |-> config1, success |-> FALSE]

\* _apply_device_filtering_config, lines 571-580
apply_device_filtering_config(M, config) ==
    LET wanted == Get(config, "deviceFiltering", DEFAULT_DEVICE_FILTERING) IN
    IF DeviceFilteringStarts(wanted)
    THEN [m |-> [M EXCEPT !.gw.deviceFiltering = wanted], success |-> TRUE]
    ELSE [m |-> [M EXCEPT !.gw.deviceFiltering =
                     Get(M.store.thingsboard, "deviceFiltering", DEFAULT_DEVICE_FILTERING)],
          success |-> FALSE]

NoRemoteShell == [absent |-> TRUE]

\* _apply_remote_shell_config, lines 582-590 (None when the key is missing)
apply_remote_shell_config(M, config) ==
    LET wanted == Get(config, "remoteShell", NoRemoteShell) IN
    IF RemoteShellStarts(wanted)
    THEN [m |-> [M EXCEPT !.gw.remoteShell = wanted], success |-> TRUE]
    ELSE [m |-> [M EXCEPT !.gw.remoteShell =
                     Get(M.store.thingsboard, "remoteShell", NoRemoteShell)],
          success |-> FALSE]

\* lines 312-321: scalar tunables, commit, acknowledge, _cleanup, persist
general_save(M, config, fault) ==
    LET M1 == [M EXCEPT !.gw.config = DictUpdate(@, config),              \* line 313
                        !.store.thingsboard = DictUpdate(@, config)]      \* line 316
        M2 == Call(M1, "send", fault,
                   LAMBDA m : SendAttributes(m, "general_configuration",
                                             m.store.thingsboard))
        \* _cleanup, lines 615-616: pop('commands') raises KeyError when absent
        M3 == IF ~Ok(M2) THEN M2
              ELSE IF \/ ~Has(M2.store.thingsboard, "statistics")
                      \/ ~Has(M2.store.thingsboard.statistics, "commands")
              THEN Raise(M2, "KeyError")
              ELSE [M2 EXCEPT !.store.thingsboard.statistics = DictPop(@, "commands")]
    IN Call(M3, "write", fault, WriteGeneralFile)

\* lines 303-310: remote shell
general_remote_shell(M, config, fault) ==
    IF SameOpt(config, M.store.thingsboard, "remoteShell")
    THEN general_save(M, config, fault)
    ELSE LET A == apply_remote_shell_config(M, config) IN
         IF A.success THEN general_save(A.m, config, fault)
         ELSE IF ~Has(config, "remoteShell") \/ ~Has(A.m.store.thingsboard, "remoteShell")
         THEN Raise(A.m, "KeyError")
         ELSE general_save(A.m,
                           [config EXCEPT !.remoteShell =
                                DictUpdate(@, A.m.store.thingsboard.remoteShell)],
                           fault)

\* lines 294-301: device filtering
general_device_filtering(M, config, fault) ==
    IF SameOpt(config, M.store.thingsboard, "deviceFiltering")
    THEN general_remote_shell(M, config, fault)
    ELSE LET A == apply_device_filtering_config(M, config) IN
         IF A.success THEN general_remote_shell(A.m, config, fault)
         ELSE IF \/ ~Has(config, "deviceFiltering")
                 \/ ~Has(A.m.store.thingsboard, "deviceFiltering")
         THEN Raise(A.m, "KeyError")
         ELSE general_remote_shell(A.m,
                                   [config EXCEPT !.deviceFiltering =
                                        DictUpdate(@, A.m.store.thingsboard.deviceFiltering)],
                                   fault)

\* lines 284-292: statistics; the payload's statistics dict is the object the
\* apply step mutates
general_statistics(M, config, fault) ==
    LET stats == Get(config, "statistics", DEFAULT_STATISTICS)
        changed == check_statistics_configuration_changes(M, stats)
    IN
    IF changed \in {"KeyError", "OSError"} THEN Raise(M, changed)
    ELSE IF changed = "same" THEN general_device_filtering(M, config, fault)
    ELSE LET A == apply_statistics_config(M, stats, fault)
             config1 == IF Has(config, "statistics")
                        THEN [config EXCEPT !.statistics = A.config]
                        ELSE config
         IN IF A.success THEN general_device_filtering(A.m, config1, fault)
            ELSE IF \/ ~Has(config1, "statistics")
                    \/ ~Has(A.m.store.thingsboard, "statistics")
            THEN Raise(A.m, "KeyError")
            ELSE general_device_filtering(
                     A.m,
                     [config1 EXCEPT !.statistics =
                          DictUpdate(@, A.m.store.thingsboard.statistics)],
                     fault)

\* lines 278-280 onwards: what follows _apply_connection_config's return
general_after_connection(M, config, success, fault) ==
    general_statistics(M,
                       IF success THEN config
                       ELSE DictUpdate(config, M.store.thingsboard),      \* line 280
                       fault)

----------------------------------------------------------------------------
(* Connection reconfiguration *)

ConnFields == {"host", "port", "security", "provisioning", "qos"}

\* the connection parameters of a general configuration
Conn(config) == [k \in ConnFields \cap DOMAIN config |-> config[k]]

\* lines 273-276, evaluated left to right: "KeyError", "changed" or "same"
ConnectionCheck(config, general) ==
    IF ~Has(config, "host") THEN "KeyError"
    ELSE IF config.host # general.host THEN "changed"
    ELSE IF ~Has(config, "port") THEN "KeyError"
    ELSE IF config.port # general.port THEN "changed"
    ELSE IF ~Has(config, "security") THEN "KeyError"
    ELSE IF config.security # general.security THEN "changed"
    ELSE IF Get(config, "provisioning", "{}") # Get(general, "provisioning", "{}")
    THEN "changed"
    ELSE IF ~Has(config, "qos") THEN "KeyError"
    ELSE IF config.qos # general.qos THEN "changed"
    ELSE "same"

\* TBClient(config, path) raises for security settings it cannot load and
\* when the provisioning request is refused
ClientConstructs(config) ==
    /\ Has(config, "security")
    /\ config.security # "tlsMissingCert"
    /\ Get(config, "provisioning", "{}") # "provRejected"

\* a TBClient object
TBClient(config) == [conn |-> Conn(config), running |-> FALSE, subscribed |-> FALSE]

\* TBClient.disconnect() / stop()
Disconnected(client) == [client EXCEPT !.running = FALSE, !.subscribed = FALSE]

\* _revert_connection, lines 535-546; an exception is logged only
revert_connection(M) ==
    LET M1 == [M EXCEPT !.gw.tb_client = Disconnected(@)] IN
    IF ~ClientConstructs(M1.store.thingsboard) THEN M1
    ELSE [M1 EXCEPT !.gw.tb_client =
              [TBClient(M1.store.thingsboard) EXCEPT !.running = TRUE,
                                                     !.subscribed = TRUE]]

\* the timeout of line 522 and the poll interval of line 524, in milliseconds
ApplyTimeoutMs == 1000
PollIntervalMs == 100

----------------------------------------------------------------------------
(* Inputs.  A pushed payload is built from a choice per field; a payload   *)
(* departs from the stock payload in at most MaxDeviations fields.         *)

MaxDeviations == 1

Deviations(c, base) == Cardinality({f \in DOMAIN c : c[f] # base[f]})

Hosts == {"h1", "h2"}

\* statistics sub-objects a payload can carry
StatisticsChoice(s) ==
    CASE s = "stock"    -> [enable |-> TRUE, statsSendPeriodInSeconds |-> 3600,
                            commands |-> <<>>]
      [] s = "bare"     -> [enable |-> TRUE, statsSendPeriodInSeconds |-> 3600]
      [] s = "commands" -> [enable |-> TRUE, statsSendPeriodInSeconds |-> 3600,
                            commands |-> <<"uptime">>]
      [] s = "invalid"  -> [enable |-> TRUE, statsSendPeriodInSeconds |-> 0,
                            commands |-> <<>>]

DeviceFilteringChoice(s) ==
    CASE s = "stock"   -> [enable |-> FALSE]
      [] s = "on"      -> [enable |-> TRUE, filterFile |-> "list.json"]
      [] s = "invalid" -> [enable |-> TRUE, filterFile |-> "missing.json"]

RemoteShellChoice(s) ==
    CASE s = "stock"   -> [enable |-> FALSE]
      [] s = "on"      -> [enable |-> TRUE, shell |-> "sh"]
      [] s = "invalid" -> [enable |-> TRUE, shell |-> "none"]

GeneralChoices ==
    [host : Hosts \cup {"absent"},
     provisioning : {"absent", "provKey", "provRejected"},
     statistics : {"stock", "bare", "commands", "invalid", "absent"},
     deviceFiltering : {"stock", "on", "invalid", "absent"},
     remoteShell : {"stock", "on", "invalid", "absent"},
     security : {"accessToken", "tlsMissingCert"},
     minPackSendDelayMS : {200, 500}]

StockGeneral ==
    [host |-> "h1", provisioning |-> "absent", statistics |-> "stock",
     deviceFiltering |-> "stock", remoteShell |-> "stock",
     security |-> "accessToken", minPackSendDelayMS |-> 200]

\* the general_configuration payload of a choice
GeneralPayload(c) ==
    LET required == [port |-> 1883, security |-> c.security, qos |-> 1,
                     minPackSendDelayMS |-> c.minPackSendDelayMS]
        p1 == IF c.host = "absent" THEN required
              ELSE DictUpdate(required, [host |-> c.host])
        p2 == IF c.provisioning = "absent" THEN p1
              ELSE DictUpdate(p1, [provisioning |-> c.provisioning])
        p3 == IF c.statistics = "absent" THEN p2
              ELSE DictUpdate(p2, [statistics |-> StatisticsChoice(c.statistics)])
        p4 == IF c.deviceFiltering = "absent" THEN p3
              ELSE DictUpdate(p3, [deviceFiltering |->
                                       DeviceFilteringChoice(c.deviceFiltering)])
    IN IF c.remoteShell = "absent" THEN p4
       ELSE DictUpdate(p4, [remoteShell |-> RemoteShellChoice(c.remoteShell)])

GeneralPayloads ==
    {GeneralPayload(c) : c \in {x \in GeneralChoices : Deviations(x, StockGeneral) <= MaxDeviations}}

StoragePayloads ==
    {[type |-> "memory", read_records_count |-> 100],
     [type |-> "file", data_folder_path |-> "./data/"],
     [type |-> "file", data_folder_path |-> "/unwritable/"],
     [type |-> "kafka"],
     [read_records_count |-> 100]}

GrpcPayloads ==
    {[enabled |-> FALSE, serverPort |-> 9595],
     [enabled |-> TRUE, serverPort |-> 9595],
     [enabled |-> TRUE, serverPort |-> 0]}

LogsPayloads ==
    {[version |-> 1, level |-> l, ts |-> ts] : l \in {"INFO", "DEBUG"}, ts \in 1..(MaxClock + 1)}
    \cup {[level |-> "INFO", ts |-> MaxClock + 1]}

MaxConnectorDeviations == 2
MaxConnectorRequests == 1

ConnectorNames == {"c1", "c2"}
ConnectorFiles == {"mqtt.json", "modbus.json"}

\* what the gateway holds for connector c1 when it starts
StoredJson == [body |-> "A", logLevel |-> "INFO", name |-> "c1"]

JsonChoice(s) ==
    CASE s = "stored" -> StoredJson
      [] s = "A"      -> [body |-> "A"]
      [] s = "B"      -> [body |-> "B"]

ConnectorChoices ==
    [name : ConnectorNames,
     type : {"mqtt", "modbus"},
     configuration : ConnectorFiles \cup {"absent"},
     logLevel : {"INFO", "DEBUG", "absent"},
     configurationJson : {"stored", "A", "B", "absent"},
     key : {"absent", "auto"},
     ts : {"new", "old", "absent"}]

StockConnector ==
    [name |-> "c1", type |-> "mqtt", configuration |-> "mqtt.json", logLevel |-> "INFO",
     configurationJson |-> "stored", key |-> "absent", ts |-> "new"]

\* the connector payload of a choice
ConnectorPayload(c) ==
    LET p0 == [name |-> c.name, type |-> c.type]
        p1 == IF c.configuration = "absent" THEN p0
              ELSE DictUpdate(p0, [configuration |-> c.configuration])
        p2 == IF c.logLevel = "absent" THEN p1
              ELSE DictUpdate(p1, [logLevel |-> c.logLevel])
        p3 == IF c.configurationJson = "absent" THEN p2
              ELSE DictUpdate(p2, [configurationJson |-> JsonChoice(c.configurationJson)])
        p4 == IF c.key = "absent" THEN p3 ELSE DictUpdate(p3, [key |-> c.key])
    IN CASE c.ts = "absent" -> p4
         [] c.ts = "old"    -> DictUpdate(p4, [ts |-> 1])
         [] c.ts = "new"    -> DictUpdate(p4, [ts |-> MaxClock + 1])

ConnectorPayloads ==
    {ConnectorPayload(c) :
        c \in {x \in ConnectorChoices :
                  Deviations(x, StockConnector) <= MaxConnectorDeviations}}

ActiveConnectorsPayloads ==
    {[list |-> l] : l \in {<<>>, <<"c1">>, <<"c2">>, <<"c1", "c2">>}}

Item(key, payload) == [key |-> key, payload |-> payload]

GeneralItems == {Item("general_configuration", p) : p \in GeneralPayloads}
StorageItems == {Item("storage_configuration", p) : p \in StoragePayloads}
GrpcItems == {Item("grpc_configuration", p) : p \in GrpcPayloads}
LogsItems == {Item("logs_configuration", p) : p \in LogsPayloads}
ConnectorItems == {Item(p.name, p) : p \in ConnectorPayloads}
ActiveConnectorsItems == {Item("active_connectors", p) : p \in ActiveConnectorsPayloads}
RemoteLoggingLevelItems == {Item("RemoteLoggingLevel", [str |-> "DEBUG"])}
DeletedItems == {Item("c1_deleted", [str |-> "mqtt.json"])}

\* the requests over a set of items: dicts of 1..MaxKeys keys, in order
RequestsOver(items) ==
    {r \in UNION {[1..n -> items] : n \in 1..MaxKeys} :
        \A i, j \in DOMAIN r : i # j => r[i].key # r[j].key}

----------------------------------------------------------------------------
(* Initial state: the gateway after RemoteConfigurator.__init__ *)

StoredGeneral ==
    [host |-> "h1", port |-> 1883, security |-> "accessToken", qos |-> 1,
     statistics |-> DEFAULT_STATISTICS, deviceFiltering |-> [enable |-> FALSE],
     remoteShell |-> [enable |-> FALSE], minPackSendDelayMS |-> 200]

\* _load_connectors_configuration, lines 204-211: the entry of a loaded connector
StoredConnector ==
    [name |-> "c1", type |-> "mqtt", configuration |-> "mqtt.json",
     configurationJson |-> StoredJson]

StoreWith(connectors) ==
    [thingsboard |-> StoredGeneral,
     storage |-> [type |-> "memory", read_records_count |-> 100],
     grpc |-> [enabled |-> FALSE, serverPort |-> 9595],
     connectors |-> connectors]

StoredLogs == [version |-> 1, level |-> "INFO"]

NoLoc == [config |-> EmptyDict, new_tb_client |-> TBClient(EmptyDict),
          elapsed |-> 0, client |-> "none"]

\* gateway.version and the answer to request_attributes(['Version']) of a run
\* whose startup synchronisation is not followed
NoBoot ==
    [pc |-> "off", remote_gateway_version |-> "None", try_count |-> 1,
     reply |-> [arrives |-> FALSE, err |-> FALSE, key |-> EmptyDict], pending |-> FALSE, version |-> EmptyDict,
     defaults |-> {}, packaging |-> "strict", compared |-> "None", late |-> FALSE,
     sent |-> <<>>]

InitGateway(stores, nets) ==
    /\ in_process = FALSE
    /\ pc = [t \in Threads |-> "idle"]
    /\ req = [t \in Threads |-> <<>>]
    /\ result = [t \in Threads |-> "none"]
    /\ loc = [t \in Threads |-> NoLoc]
    /\ store \in stores
    /\ now = 1
    /\ served = 0
    /\ files = [f \in {GeneralFile, LogsFile}
                     \cup {store.connectors[i].configuration : i \in 1..Len(store.connectors)} |->
                  [content |-> IF f = GeneralFile THEN LocalFormat(store)
                               ELSE IF f = LogsFile THEN StoredLogs
                               ELSE StoredJson,
                   mtime |-> 1]]
    \* __init__, line 60
    /\ backups = <<[file |-> GeneralFile, at |-> now, data |-> store]>>
    /\ net \in nets
    /\ gw = [tb_client |-> [conn |-> Conn(store.thingsboard),
                            running |-> TRUE, subscribed |-> TRUE],
             stray |-> <<>>,
             event_storage |-> store.storage,
             grpc |-> store.grpc,
             logs |-> StoredLogs,
             available_connectors |->
                 [i \in 1..Len(store.connectors) |-> store.connectors[i].name],
             statistics |-> store.thingsboard.statistics,
             deviceFiltering |-> store.thingsboard.deviceFiltering,
             remoteShell |-> store.thingsboard.remoteShell,
             config |-> store.thingsboard]
    /\ last = [thread |-> 0, key |-> "none", payload |-> EmptyDict, fault |-> "none",
               pre |-> [store |-> store, files |-> files, backups |-> backups, gw |-> gw],
               trace |-> <<>>, exc |-> "none", done |-> TRUE, conn |-> "none",
               handler |-> "none"]

InitWith(stores, nets) ==
    /\ InitGateway(stores, nets)
    /\ boot = NoBoot

----------------------------------------------------------------------------
(* process_config_request *)

\* the machine state a handler starts from
M0 == [store |-> store, files |-> files, backups |-> backups, gw |-> gw,
       trace |-> <<>>, exc |-> "none"]

Pre == [store |-> store, files |-> files, backups |-> backups, gw |-> gw]

\* the caller hands over a request (the attribute-update callback)
Receive(t, requests, limit) ==
    /\ pc[t] = "idle"
    /\ served < limit
    /\ \E r \in requests : req' = [req EXCEPT ![t] = r]
    /\ pc' = [pc EXCEPT ![t] = "check"]
    /\ result' = [result EXCEPT ![t] = "none"]
    /\ served' = served + 1
    /\ UNCHANGED <<in_process, loc, store, files, backups, gw, last, net, now, boot>>

\* line 226: if not self.in_process; line 249: the request is dropped
CheckInProcess(t) ==
    /\ pc[t] = "check"
    /\ IF in_process
       THEN /\ pc' = [pc EXCEPT ![t] = "idle"]
            /\ result' = [result EXCEPT ![t] = "rejected"]
            /\ req' = [req EXCEPT ![t] = <<>>]
       ELSE /\ pc' = [pc EXCEPT ![t] = "set"]
            /\ UNCHANGED <<result, req, boot>>
    /\ UNCHANGED <<in_process, loc, store, files, backups, gw, last, net, now, served, boot>>

\* line 229: self.in_process = True
SetInProcess(t) ==
    /\ pc[t] = "set"
    /\ in_process' = TRUE
    /\ pc' = [pc EXCEPT ![t] = "loop"]
    /\ UNCHANGED <<req, result, loc, store, files, backups, gw, last, net, now, served, boot>>

\* lines 233-238: a tombstone key or an unmodified payload is passed over
SkipKey(t) ==
    /\ pc[t] = "loop"
    /\ req[t] # <<>>
    /\ \/ ContainsDeleted(Head(req[t]).key)
       \/ ~IsModified(Head(req[t]).key, Head(req[t]).payload)
    /\ req' = [req EXCEPT ![t] = Tail(@)]
    /\ UNCHANGED <<in_process, pc, result, loc, store, files, backups, gw, last, net, now, served, boot>>

\* line 232: the keys are exhausted
EndLoop(t) ==
    /\ pc[t] = "loop"
    /\ req[t] = <<>>
    /\ pc' = [pc EXCEPT ![t] = "finally"]
    /\ UNCHANGED <<in_process, req, result, loc, store, files, backups, gw, last, net, now, served, boot>>

\* lines 244-245: the exceptions the batch-level except clause catches
CaughtByBatch == {"KeyError", "AttributeError"}

\* the flag reset written after the try statement instead of in its finally
\* clause: an exception that propagates passes it by
GuardAfterBatchNoFinally(outcome) == outcome = "propagating"

\* lines 246-247: the value the try statement leaves in_process with, for a
\* batch that ended "none" (normally), "caught" or "propagating"
GuardAfterBatch(outcome) == FALSE

\* lines 244-248: leaving the try statement
Finally(t) ==
    /\ pc[t] = "finally"
    /\ in_process' = GuardAfterBatch(result[t])
    /\ pc' = [pc EXCEPT ![t] = "idle"]
    /\ result' = [result EXCEPT ![t] = IF @ = "propagating" THEN "raised" ELSE "returned"]
    /\ req' = [req EXCEPT ![t] = <<>>]
    /\ UNCHANGED <<loc, store, files, backups, gw, last, net, now, served, boot>>

\* t is at a key that is neither a tombstone nor unmodified and that
\* dispatches to handler h (lines 233-243)
AtKey(t, h) ==
    /\ pc[t] = "loop"
    /\ req[t] # <<>>
    /\ ~ContainsDeleted(Head(req[t]).key)
    /\ IsModified(Head(req[t]).key, Head(req[t]).payload)
    /\ HandlerOf(Head(req[t]).key) = h

\* the handler of t's current key has ended in machine state R
Commit(t, h, R, fault, conn, pre) ==
    /\ store' = R.store
    /\ files' = R.files
    /\ backups' = R.backups
    /\ gw' = R.gw
    /\ last' = [thread |-> t, key |-> Head(req[t]).key, payload |-> Head(req[t]).payload,
                fault |-> fault, pre |-> pre, trace |-> R.trace, exc |-> R.exc,
                done |-> TRUE, conn |-> conn, handler |-> h]
    /\ req' = [req EXCEPT ![t] = Tail(@)]
    /\ loc' = [loc EXCEPT ![t] = NoLoc]
    /\ IF R.exc = "none"
       THEN /\ pc' = [pc EXCEPT ![t] = "loop"]
            /\ UNCHANGED result
       ELSE /\ pc' = [pc EXCEPT ![t] = "finally"]
            /\ result' = [result EXCEPT ![t] = IF R.exc \in CaughtByBatch THEN "caught"
                                               ELSE "propagating"]
    /\ UNCHANGED <<in_process, net, now, served, boot>>

Payload(t) == Head(req[t]).payload

HandleStorage(t) ==
    /\ AtKey(t, "storage")
    /\ \E fault \in {"none", "write", "send"} :
          Commit(t, "storage", handle_storage_configuration_update(M0, Payload(t), fault),
                 fault, "none", Pre)

HandleGrpc(t) ==
    /\ AtKey(t, "grpc")
    /\ \E fault \in {"none", "close", "load", "connect", "revert_load", "write", "send"} :
          Commit(t, "grpc", handle_grpc_configuration_update(M0, Payload(t), fault),
                 fault, "none", Pre)

HandleLogs(t) ==
    /\ AtKey(t, "logs")
    /\ \E fault \in {"none", "write", "send"} :
          Commit(t, "logs", handle_logs_configuration_update(M0, Payload(t), fault),
                 fault, "none", Pre)

HandleActiveConnectors(t) ==
    /\ AtKey(t, "active_connectors")
    /\ \E fault \in {"none", "close", "write", "send"} :
          Commit(t, "active_connectors", handle_active_connectors_update(M0, Payload(t), fault),
                 fault, "none", Pre)

HandleRemoteLoggingLevel(t) ==
    /\ AtKey(t, "remote_logging_level")
    /\ \E fault \in {"none", "send"} :
          Commit(t, "remote_logging_level", handle_remote_logging_level_update(M0, Payload(t), fault),
                 fault, "none", Pre)

HandleConnector(t) ==
    /\ AtKey(t, "connector")
    /\ \E fault \in {"none", "open", "backup", "write_general", "close", "load",
                     "connect", "send"} :
          Commit(t, "connector", handle_connector_configuration_update(M0, Payload(t), fault),
                 fault, "none", Pre)

\* the clock advances
Tick ==
    /\ now < MaxClock
    /\ now' = now + 1
    /\ UNCHANGED <<in_process, pc, req, result, loc, store, files, backups, gw, last, net, served, boot>>

----------------------------------------------------------------------------
(* General configuration handler and _apply_connection_config, step by step *)

GeneralFaults == {"none", "write_stats", "send", "write"}

\* time one pass of the for loop of lines 520-521 takes, in milliseconds
ConnectDurations == {ApplyTimeoutMs \div 2, ApplyTimeoutMs}

\* _handle_general_configuration_update, lines 252-321, up to the polling loop
\* of _apply_connection_config (lines 510-518)
HandleGeneral(t) ==
    /\ AtKey(t, "general")
    /\ LET config == Payload(t)
           check == ConnectionCheck(config, store.thingsboard)
           M1 == [M0 EXCEPT !.gw.tb_client = Disconnected(@)]            \* line 514
       IN CASE check = "KeyError" ->
                   Commit(t, "general", Raise(M0, "KeyError"), "none", "none", Pre)
            [] check = "same" ->
                   \E fault \in GeneralFaults :
                       Commit(t, "general", general_after_connection(M0, config, TRUE, fault),
                              fault, "same", Pre)
            [] check = "changed" /\ ~ClientConstructs(config) ->      \* lines 530-533
                   \E fault \in GeneralFaults :
                       Commit(t, "general", general_after_connection(revert_connection(M1),
                                                          config, FALSE, fault),
                              fault, "failed", Pre)
            [] check = "changed" /\ ClientConstructs(config) ->
                   /\ gw' = M1.gw
                   /\ loc' = [loc EXCEPT ![t] = [config |-> config,
                                                 new_tb_client |-> TBClient(config),
                                                 elapsed |-> 0, client |-> "new"]]
                   /\ pc' = [pc EXCEPT ![t] = "apply_connect"]
                   /\ last' = [thread |-> t, key |-> Head(req[t]).key, payload |-> config,
                               fault |-> "none", pre |-> Pre, trace |-> <<>>,
                               exc |-> "none", done |-> FALSE, conn |-> "pending",
                               handler |-> "general"]
                   /\ UNCHANGED <<in_process, req, result, store, files, backups, net, now, served, boot>>

\* lines 520-522: client.connect() for the next client of (new, old); the
\* loop of line 522 is entered only once the window has elapsed
ApplyConnect(t) ==
    /\ pc[t] = "apply_connect"
    /\ \E d \in ConnectDurations :
          LET elapsed == Min(loc[t].elapsed + d, ApplyTimeoutMs)
              polls == elapsed >= ApplyTimeoutMs
              other == IF loc[t].client = "new" THEN "old" ELSE "new"
          IN /\ loc' = [loc EXCEPT ![t].elapsed = elapsed,
                                   ![t].client = IF polls THEN @ ELSE other,
                                   ![t].new_tb_client.running =
                                       IF loc[t].client = "new" THEN TRUE ELSE @]
             /\ gw' = IF loc[t].client = "old" THEN [gw EXCEPT !.tb_client.running = TRUE]
                      ELSE gw
             /\ pc' = [pc EXCEPT ![t] = IF polls THEN "apply_poll" ELSE "apply_connect"]
    /\ UNCHANGED <<in_process, req, result, store, files, backups, last, net, now, served, boot>>

\* client.is_connected(): possible once connect() was called on a client
\* whose host accepts connections
CanReportConnected(client) ==
    client.running /\ Has(client.conn, "host") /\ client.conn.host \in net

\* lines 523 and 526-529: one is_connected() poll; on success the client
\* becomes the gateway's and the handler runs on to its end
ApplyPoll(t) ==
    /\ pc[t] = "apply_poll"
    /\ LET polled == IF loc[t].client = "new" THEN loc[t].new_tb_client ELSE gw.tb_client
           other == IF loc[t].client = "new" THEN gw.tb_client ELSE loc[t].new_tb_client
       IN \E connection_state \in (IF CanReportConnected(polled) THEN {TRUE, FALSE}
                                    ELSE {FALSE}) :
             IF connection_state
             THEN LET M1 == [M0 EXCEPT !.gw.tb_client = [polled EXCEPT !.subscribed = TRUE],
                                       !.gw.stray = IF other.running THEN Append(@, other.conn)
                                                    ELSE @,
                                       !.trace = last.trace]
                  IN \E fault \in GeneralFaults :
                        Commit(t, "general", general_after_connection(M1, loc[t].config, TRUE, fault),
                               fault, loc[t].client, last.pre)
             ELSE /\ pc' = [pc EXCEPT ![t] = "apply_sleep"]
                  /\ UNCHANGED <<in_process, req, result, loc, store, files, backups, gw,
                                 last, net, now, served, boot>>

\* line 524: sleep(.1), then the condition of line 522 again
ApplySleep(t) ==
    /\ pc[t] = "apply_sleep"
    /\ loc' = [loc EXCEPT ![t].elapsed = Min(@ + PollIntervalMs, ApplyTimeoutMs)]
    /\ pc' = [pc EXCEPT ![t] = "apply_poll"]
    /\ UNCHANGED <<in_process, req, result, store, files, backups, gw, last, net, now, served, boot>>

----------------------------------------------------------------------------
(* Specifications *)

\* callers racing on process_config_request, one payload per kind of key
DispatchItems ==
    RemoteLoggingLevelItems \cup DeletedItems
    \cup {Item("general_configuration", GeneralPayload([StockGeneral EXCEPT !.host = "absent"])),
          Item("storage_configuration", [type |-> "file", data_folder_path |-> "./data/"])}

DispatchRequests == RequestsOver(DispatchItems)

Init == InitWith({StoreWith(<<>>)}, {Hosts})

Next ==
    \E t \in Threads :
        \/ Receive(t, DispatchRequests, MaxRequests)
        \/ CheckInProcess(t)
        \/ SetInProcess(t)
        \/ SkipKey(t)
        \/ HandleGeneral(t)
        \/ HandleStorage(t)
        \/ HandleRemoteLoggingLevel(t)
        \/ EndLoop(t)
        \/ Finally(t)

Spec == Init /\ [][Next]_vars

GeneralRequests == RequestsOver(GeneralItems)

\* one caller pushing general_configuration updates
GeneralInit == InitWith({StoreWith(<<>>)}, SUBSET Hosts)

GeneralNext ==
    \/ Receive(1, GeneralRequests, MaxRequests)
    \/ CheckInProcess(1)
    \/ SetInProcess(1)
    \/ HandleGeneral(1)
    \/ ApplyConnect(1)
    \/ ApplyPoll(1)
    \/ ApplySleep(1)
    \/ EndLoop(1)
    \/ Finally(1)

GeneralSpec == GeneralInit /\ [][GeneralNext]_vars

\* the caller's thread keeps running while it is inside the polling loop
FairGeneralSpec == GeneralSpec /\ WF_vars(ApplyPoll(1)) /\ WF_vars(ApplySleep(1))

BackendRequests == RequestsOver(StorageItems \cup GrpcItems \cup LogsItems)

\* one caller pushing storage, GRPC and logs updates
BackendInit == InitWith({StoreWith(<<>>), StoreWith(<<StoredConnector>>)}, {Hosts})

BackendNext ==
    \/ Receive(1, BackendRequests, MaxRequests)
    \/ CheckInProcess(1)
    \/ SetInProcess(1)
    \/ SkipKey(1)
    \/ HandleStorage(1)
    \/ HandleGrpc(1)
    \/ HandleLogs(1)
    \/ EndLoop(1)
    \/ Finally(1)
    \/ Tick

BackendSpec == BackendInit /\ [][BackendNext]_vars

ConnectorRequests == RequestsOver(ConnectorItems \cup ActiveConnectorsItems)

\* one caller pushing connector and active_connectors updates
ConnectorInit == InitWith({StoreWith(<<>>), StoreWith(<<StoredConnector>>)}, {Hosts})

ConnectorNext ==
    \/ Receive(1, ConnectorRequests, MaxConnectorRequests)
    \/ CheckInProcess(1)
    \/ SetInProcess(1)
    \/ SkipKey(1)
    \/ HandleConnector(1)
    \/ HandleActiveConnectors(1)
    \/ EndLoop(1)
    \/ Finally(1)
    \/ Tick

ConnectorSpec == ConnectorInit /\ [][ConnectorNext]_vars

----------------------------------------------------------------------------
(* Properties of process_config_request *)

\* caller t is inside the try statement of lines 231-247
InBatchLoop(t) == pc[t] \in {"loop", "apply_connect", "apply_poll", "apply_sleep"}
InTry(t) == InBatchLoop(t) \/ pc[t] = "finally"

\* C1: whatever the interleaving of the callers, at most one invocation
\* executes the per-key batch loop at a time
C1_SingleFlight ==
    \A t1, t2 \in Threads : InBatchLoop(t1) /\ InBatchLoop(t2) => t1 = t2

\* C2: an error raised while processing one key does not abort the batch: the
\* loop is left only when no non-tombstone, modified key of the request is
\* still to be handled
C2_BatchContinues ==
    \A t \in Threads :
        pc[t] = "finally" =>
            \A i \in 1..Len(req[t]) :
                ContainsDeleted(req[t][i].key) \/ ~IsModified(req[t][i].key, req[t][i].payload)

\* C3: the in_process flag is never set with no invocation inside the try
\* statement: every accepted invocation that has finished, normally or by an
\* exception, has left it False
C3_GuardReleased == in_process => \E t \in Threads : InTry(t)

\* an invocation has ended in an exception that propagated to its caller, and
\* the flag is down with nobody inside the try statement
C3_Witness ==
    /\ ~in_process
    /\ \E t \in Threads : result[t] = "raised" /\ pc[t] = "idle"
    /\ \A t \in Threads : ~InTry(t)

----------------------------------------------------------------------------
(* Properties of the general configuration handler *)

\* the latest handler run was the general handler, it has ended, and its
\* connection reconfiguration failed (lines 530-533)
ConnectionFailed ==
    last.done /\ HandlerOf(last.key) = "general" /\ last.conn = "failed"

\* C4: after a general handler run whose connection reconfiguration failed,
\* the store's connection fields equal their pre-update values and the
\* gateway's client is a started, subscribed client built from the old
\* parameters
C4_RollbackRestores ==
    ConnectionFailed =>
        /\ Conn(store.thingsboard) = Conn(last.pre.store.thingsboard)
        /\ gw.tb_client.conn = Conn(last.pre.store.thingsboard)
        /\ gw.tb_client.running
        /\ gw.tb_client.subscribed

\* caller t is polling inside _apply_connection_config and neither the new
\* candidate nor the old client can ever report is_connected()
PollingInVain(t) ==
    /\ pc[t] \in {"apply_poll", "apply_sleep"}
    /\ ~(Has(loc[t].new_tb_client.conn, "host") /\ loc[t].new_tb_client.conn.host \in net)
    /\ ~(Has(gw.tb_client.conn, "host") /\ gw.tb_client.conn.host \in net)

\* C5: _apply_connection_config terminates: when neither client ever reports
\* is_connected() and no call raises, the procedure stops polling once the
\* timeout window has elapsed, reverts and the handler run ends with a failed
\* connection reconfiguration
C5_ApplyTerminates ==
    \A t \in Threads : PollingInVain(t) ~> (pc[t] \notin {"apply_poll", "apply_sleep"})

----------------------------------------------------------------------------
(* Properties of the storage and GRPC handlers *)

\* the latest handler run has ended and was run by handler h
Ran(h) == last.done /\ last.key # "none" /\ HandlerOf(last.key) = h

\* the external calls of kind op the latest handler run made
Calls(op) == {i \in 1..Len(last.trace) : last.trace[i].op = op}

\* the new event storage of the latest storage run could not be built
StorageConstructionFailed ==
    Ran("storage") /\ (~Has(last.payload, "type") \/ ~StorageConstructs(last.payload))

\* the GRPC service of the latest GRPC run could not be built, or closing or
\* reloading the connectors after it raised
GrpcConstructionFailed ==
    /\ Ran("grpc")
    /\ last.payload # last.pre.store.grpc
    /\ \/ ~GrpcConstructs(last.payload)
       \/ last.fault \in {"load", "connect"}
       \/ last.fault = "close" /\ last.pre.gw.available_connectors # <<>>

\* C6: swap-and-verify.  When building the new event storage, or the GRPC
\* service with the connector reload, raises, the previous backend is back
\* in place, the store's section is unchanged, tb_gateway.json is not
\* rewritten and nothing is acknowledged; a run that builds the backend and
\* meets no error updates the section, persists it and acknowledges it
C6_SwapAndVerify ==
    /\ StorageConstructionFailed =>
          /\ gw.event_storage = last.pre.gw.event_storage
          /\ store.storage = last.pre.store.storage
          /\ files = last.pre.files
          /\ Calls("write") = {} /\ Calls("send") = {}
    /\ GrpcConstructionFailed =>
          /\ gw.grpc = last.pre.gw.grpc
          /\ store.grpc = last.pre.store.grpc
          /\ files = last.pre.files
          /\ Calls("write") = {} /\ Calls("send") = {}
    /\ Ran("storage") /\ ~StorageConstructionFailed /\ last.fault = "none" =>
          /\ gw.event_storage = last.payload
          /\ store.storage = DictUpdate(last.pre.store.storage, last.payload)
          /\ files[GeneralFile].content = LocalFormat(store)
          /\ \E i \in Calls("write") : \E j \in Calls("send") :
                i < j /\ last.trace[j].data = store.storage
    /\ Ran("grpc") /\ last.payload # last.pre.store.grpc /\ ~GrpcConstructionFailed
                   /\ last.fault = "none" =>
          /\ gw.grpc = last.payload
          /\ store.grpc = DictUpdate(last.pre.store.grpc, last.payload)
          /\ files[GeneralFile].content = LocalFormat(store)
          /\ \E i \in Calls("write") : \E j \in Calls("send") :
                i < j /\ last.trace[j].data = store.grpc

\* a GRPC run whose service was built and whose connector reload raised,
\* with connectors running
C6_Witness ==
    /\ GrpcConstructionFailed
    /\ GrpcConstructs(last.payload)
    /\ last.fault = "load"
    /\ last.pre.gw.available_connectors # <<>>
    /\ last.exc = "none"

----------------------------------------------------------------------------
(* Properties of the connector lifecycle handler *)

\* the latest connector run left its try block by an exception before the
\* acknowledgement of line 502
ConnectorStepFailed ==
    Ran("connector") /\ Calls("send") = {} /\ last.fault # "send"

\* C7: when a step of the connector handler fails, the store's connector
\* list is exactly what it was before the run
C7_ListUnchangedOnFailure ==
    ConnectorStepFailed => store.connectors = last.pre.store.connectors

\* C8: no two entries of the store's connector list share a name
C8_UniqueNames ==
    \A i, j \in 1..Len(store.connectors) :
        store.connectors[i].name = store.connectors[j].name => i = j

\* an update has altered the entry of an existing connector in a list of two
C8_Witness ==
    /\ Ran("connector")
    /\ Len(last.pre.store.connectors) = 2
    /\ Len(store.connectors) = 2
    /\ store.connectors # last.pre.store.connectors

\* the latest run updated an existing connector whose file exists and reads
\* as JSON, with a payload that carries a configurationJson
ExistingConnectorRun ==
    /\ Ran("connector")
    /\ IsDict(last.payload)
    /\ Has(last.payload, "configuration") /\ Has(last.payload, "name")
    /\ Has(last.payload, "configurationJson")
    /\ found_connectors(last.pre.store.connectors, last.payload.name) # 0
    /\ Has(last.pre.files, last.payload.configuration)
    /\ last.pre.files[last.payload.configuration].content # Truncated

\* the content of the connector file of the latest run, before the run
StoredContent == last.pre.files[last.payload.configuration].content

\* C9: for an existing connector whose file exists, an update whose
\* configurationJson differs from the stored content makes exactly one
\* backup, of the stored content, before the file is opened for writing; an
\* update whose configurationJson is the stored content makes none
C9_BackupOnChange ==
    ExistingConnectorRun /\ last.fault # "backup" =>
        IF Str(StoredContent) # Str(last.payload.configurationJson)
        THEN /\ Cardinality(Calls("backup")) = 1
             /\ \A b \in Calls("backup") :
                   /\ last.trace[b].arg = last.payload.configuration
                   /\ last.trace[b].data = StoredContent
                   /\ \A w \in Calls("open_w") \cup Calls("write") : b < w
             /\ backups # <<>>
             /\ backups[Len(backups)].file = last.payload.configuration
             /\ backups[Len(backups)].data = StoredContent
        ELSE /\ Calls("backup") = {}
             /\ backups = last.pre.backups

\* an update with a different configurationJson has backed the stored
\* content up and then overwritten the file
C9_Witness ==
    /\ ExistingConnectorRun
    /\ last.fault = "none"
    /\ Str(StoredContent) # Str(last.payload.configurationJson)
    /\ Calls("backup") # {}
    /\ files[last.payload.configuration].content # StoredContent

\* the configuration files the configurator tracks
TrackedFiles == {GeneralFile, LogsFile} \cup ConnectorFiles

\* C10: every overwrite of a tracked file by a handler run is preceded, in
\* that run, by a backup holding the file's content from before the run
C10_BackupBeforeOverwrite ==
    \A w \in Calls("open_w") \cup Calls("write") :
        /\ last.trace[w].arg \in TrackedFiles
        /\ Has(last.pre.files, last.trace[w].arg)
        => \E b \in Calls("backup") :
              /\ b < w
              /\ last.trace[b].arg = last.trace[w].arg
              /\ last.trace[b].data = last.pre.files[last.trace[w].arg].content

----------------------------------------------------------------------------
(* Dispatch *)

RoutingItems ==
    RemoteLoggingLevelItems \cup DeletedItems
    \cup {Item("general_configuration", GeneralPayload(StockGeneral)),
          Item("storage_configuration", [type |-> "file", data_folder_path |-> "./data/"]),
          Item("grpc_configuration", [enabled |-> TRUE, serverPort |-> 9595]),
          Item("logs_configuration", [version |-> 1, level |-> "DEBUG", ts |-> MaxClock + 1]),
          Item("active_connectors", [list |-> <<"c1">>]),
          Item("c1", ConnectorPayload(StockConnector)),
          Item("c2", ConnectorPayload([StockConnector EXCEPT !.name = "c2"]))}

MaxRoutingRequests == 1

RoutingRequests == RequestsOver(RoutingItems)

RoutingInit == InitWith({StoreWith(<<StoredConnector>>)}, {Hosts})

\* callers pushing one key of every kind the handler table tells apart
RoutingNext ==
    \E t \in Threads :
        \/ Receive(t, RoutingRequests, MaxRoutingRequests)
        \/ CheckInProcess(t)
        \/ SetInProcess(t)
        \/ SkipKey(t)
        \/ HandleGeneral(t)
        \/ HandleStorage(t)
        \/ HandleGrpc(t)
        \/ HandleLogs(t)
        \/ HandleActiveConnectors(t)
        \/ HandleRemoteLoggingLevel(t)
        \/ HandleConnector(t)
        \/ EndLoop(t)
        \/ Finally(t)

RoutingSpec == RoutingInit /\ [][RoutingNext]_vars

\* the keys that have a handler of their own
NamedKeys ==
    {"general_configuration", "storage_configuration", "grpc_configuration",
     "logs_configuration", "active_connectors", "RemoteLoggingLevel"}

\* the handler each named key is meant for
OwnHandler(key) ==
    CASE key = "general_configuration" -> "general"
      [] key = "storage_configuration" -> "storage"
      [] key = "grpc_configuration"    -> "grpc"
      [] key = "logs_configuration"    -> "logs"
      [] key = "active_connectors"     -> "active_connectors"
      [] key = "RemoteLoggingLevel"    -> "remote_logging_level"

\* C11: a processed key is consumed by one handler run: a named key by its
\* own handler, never by the connector handler, and every other key that is
\* not a tombstone by the connector handler
C11_FirstMatchDispatch ==
    [][\A t \in Threads :
          /\ pc[t] = "loop"
          /\ req[t] # <<>>
          /\ req'[t] = Tail(req[t])
          /\ ~ContainsDeleted(Head(req[t]).key)
          /\ IsModified(Head(req[t]).key, Head(req[t]).payload)
          => /\ last'.key = Head(req[t]).key
             /\ last'.thread = t
             /\ last'.handler = IF last'.key \in NamedKeys THEN OwnHandler(last'.key)
                                ELSE "connector"]_vars

\* an active_connectors key, which the catch-all pattern matches as well, has
\* been handled by the active-connectors handler
C11_Witness ==
    /\ last.done
    /\ last.key = "active_connectors"
    /\ last.handler = "active_connectors"
    /\ FullMatch("*", last.key)
    /\ Calls("send") # {}

----------------------------------------------------------------------------
(* Change detection *)

\* the file a key and its payload stand for: the payload's configuration
\* field, or else the logs file for the logs_configuration key
FileOf(key, payload) ==
    IF ~IsDict(payload) THEN NoFile
    ELSE IF "configuration" \in DOMAIN payload THEN payload.configuration
    ELSE IF key = "logs_configuration" THEN LogsFile
    ELSE NoFile

\* the key caller t is about to process, and its payload
AtLoop(t) == pc[t] = "loop" /\ req[t] # <<>>
NextKey(t) == Head(req[t]).key
NextPayload(t) == Head(req[t]).payload

\* the file of the payload exists and is at least as new as the timestamp ts
FreshOnDisk(t, ts) ==
    /\ FileOf(NextKey(t), NextPayload(t)) # NoFile
    /\ FileOf(NextKey(t), NextPayload(t)) \in DOMAIN files
    /\ ts <= files[FileOf(NextKey(t), NextPayload(t))].mtime

\* C12: _is_modified reports unmodified exactly when the attribute resolves
\* to a file, the file exists, and the payload's timestamp, taken as 0 when
\* the payload has none, is at most the file's modification time
C12_UnmodifiedIff ==
    \A t \in Threads :
        AtLoop(t) =>
            (~IsModified(NextKey(t), NextPayload(t))
                <=> FreshOnDisk(t, IF "ts" \in DOMAIN NextPayload(t)
                                   THEN NextPayload(t).ts ELSE 0))

\* C12 as stated: unmodified exactly when the attribute resolves to a file,
\* the file exists, and the payload carries a timestamp that is at most the
\* file's modification time
C12_UnmodifiedIffCarriesTimestamp ==
    \A t \in Threads :
        AtLoop(t) =>
            (~IsModified(NextKey(t), NextPayload(t))
                <=> /\ IsDict(NextPayload(t))
                    /\ "ts" \in DOMAIN NextPayload(t)
                    /\ FreshOnDisk(t, NextPayload(t).ts))

\* a payload whose timestamp equals the modification time of its existing
\* file is reported unmodified
C12_Witness ==
    \E t \in Threads :
        /\ AtLoop(t)
        /\ IsDict(NextPayload(t))
        /\ "ts" \in DOMAIN NextPayload(t)
        /\ FreshOnDisk(t, NextPayload(t).ts)
        /\ NextPayload(t).ts = files[FileOf(NextKey(t), NextPayload(t))].mtime
        /\ ~IsModified(NextKey(t), NextPayload(t))

\* caller t is about to process a payload whose timestamp is at most the
\* modification time of the file it maps to
StalePayload(t) ==
    /\ AtLoop(t)
    /\ IsDict(NextPayload(t))
    /\ "ts" \in DOMAIN NextPayload(t)
    /\ FreshOnDisk(t, NextPayload(t).ts)

\* C13: a payload whose timestamp is at most the modification time of its
\* file, a second submission of the same payload included, is consumed
\* without a handler run: no file is written, no backup is made, and the
\* store and the gateway stay as they are
C13_StalePayloadSkipped ==
    [][\A t \in Threads :
          StalePayload(t) /\ req'[t] # req[t]
          => /\ req'[t] = Tail(req[t])
             /\ files' = files
             /\ backups' = backups
             /\ store' = store
             /\ gw' = gw
             /\ last' = last]_vars

\* the payload the latest handler run applied without a fault is submitted
\* again, and the file it wrote is at least as new as the payload's timestamp
C13_Witness ==
    \E t \in Threads :
        /\ StalePayload(t)
        /\ last.done
        /\ last.fault = "none"
        /\ last.exc = "none"
        /\ last.key = NextKey(t)
        /\ last.payload = NextPayload(t)
        /\ Calls("write") # {}
        /\ served = 2

----------------------------------------------------------------------------
(* Connector lifecycle: creation and acknowledgement *)

\* the entries of a connector list that carry a name
Named(connectors, name) == {i \in 1..Len(connectors) : connectors[i].name = name}

\* the latest run handled a payload that has every field of the expected
\* structure and a name the connector list did not know, and no step failed
NewConnectorRun ==
    /\ last.done
    /\ last.handler = "connector"
    /\ IsDict(last.payload)
    /\ {"name", "type", "configuration", "logLevel", "configurationJson"}
           \subseteq DOMAIN last.payload
    /\ Named(last.pre.store.connectors, last.payload.name) = {}
    /\ last.fault = "none"

\* configurationJson with logLevel and name written over it
JsonWithLevelAndName(payload) ==
    [k \in DOMAIN payload.configurationJson \cup {"logLevel", "name"} |->
        IF k = "logLevel" THEN payload.logLevel
        ELSE IF k = "name" THEN payload.name
        ELSE payload.configurationJson[k]]

\* C14: a connector payload with an unknown name results, in this order, in
\* its file written with configurationJson merged with logLevel and name,
\* the connector list one entry longer with exactly one entry of that name,
\* tb_gateway.json rewritten with the longer list, the connectors loaded
\* and connected, and an acknowledgement keyed by the payload's name
C14_NewConnectorOrder ==
    NewConnectorRun =>
        /\ Len(store.connectors) = Len(last.pre.store.connectors) + 1
        /\ Cardinality(Named(store.connectors, last.payload.name)) = 1
        /\ SubSeq(store.connectors, 1, Len(last.pre.store.connectors))
               = last.pre.store.connectors
        /\ files[last.payload.configuration].content = JsonWithLevelAndName(last.payload)
        /\ \E w, g, l, c, s \in 1..Len(last.trace) :
              /\ w < g /\ g < l /\ l < c /\ c < s
              /\ last.trace[w].op = "write"
              /\ last.trace[w].arg = last.payload.configuration
              /\ last.trace[w].data = JsonWithLevelAndName(last.payload)
              /\ last.trace[g].op = "write"
              /\ last.trace[g].arg = GeneralFile
              /\ Len(last.trace[g].data.connectors) = Len(last.pre.store.connectors) + 1
              /\ Cardinality(Named(last.trace[g].data.connectors, last.payload.name)) = 1
              /\ last.trace[l].op = "load"
              /\ last.trace[c].op = "connect"
              /\ last.trace[s].op = "send"
              /\ last.trace[s].arg = last.payload.name
              /\ s = Len(last.trace)
              /\ Calls("send") = {s}

\* a connector named c2 has been created next to the stored connector c1
C14_Witness ==
    /\ NewConnectorRun
    /\ last.pre.store.connectors # <<>>
    /\ ~Has(last.pre.files, last.payload.configuration)
    /\ Has(files, last.payload.configuration)
    /\ Len(store.connectors) = 2
    /\ store.connectors[2].name = last.payload.name
    /\ Calls("send") # {}

\* C15: every run of the connector handler whose send_attributes call does
\* not itself fail acknowledges the payload under the connector's name
C15_ConnectorAlwaysAcknowledged ==
    /\ last.done
    /\ last.handler = "connector"
    /\ last.fault # "send"
    => \E s \in Calls("send") :
          /\ last.trace[s].arg = last.key
          /\ IsDict(last.trace[s].data)
          /\ last.trace[s].data.name = last.payload.name

\* C16: every run of the active-connectors handler whose send_attributes
\* call does not itself fail acknowledges the received list under the key
\* active_connectors, whether or not closing a connector or writing
\* tb_gateway.json failed
C16_ActiveConnectorsAlwaysAcknowledged ==
    /\ last.done
    /\ last.handler = "active_connectors"
    /\ last.fault # "send"
    => \E s \in Calls("send") :
          /\ last.trace[s].arg = "active_connectors"
          /\ last.trace[s].data = last.payload

----------------------------------------------------------------------------
(* Properties of the general handler's sub-steps *)

\* the fields of a general_configuration payload that have a sub-step
SubStepFields ==
    {"host", "port", "security", "provisioning", "qos",
     "statistics", "deviceFiltering", "remoteShell"}

\* the latest run was a general run whose payload equals the store in every
\* field that has a sub-step, and no external call failed
NoChangePush ==
    /\ last.done
    /\ last.handler = "general"
    /\ last.fault = "none"
    /\ \A f \in SubStepFields :
          /\ f \in DOMAIN last.payload <=> f \in DOMAIN last.pre.store.thingsboard
          /\ f \in DOMAIN last.payload => last.payload[f] = last.pre.store.thingsboard[f]

\* C17: a general_configuration push that equals the current values in every
\* field with a sub-step leaves the client, the statistics service, device
\* filtering and the remote shell as they are, re-applies the scalar
\* tunables and rewrites tb_gateway.json
C17_NoChangePushRewritesFile ==
    NoChangePush =>
        /\ last.conn = "same"
        /\ gw.tb_client = last.pre.gw.tb_client
        /\ gw.statistics = last.pre.gw.statistics
        /\ gw.deviceFiltering = last.pre.gw.deviceFiltering
        /\ gw.remoteShell = last.pre.gw.remoteShell
        /\ \A k \in DOMAIN last.payload \ SubStepFields : gw.config[k] = last.payload[k]
        /\ \E w \in Calls("write") : last.trace[w].arg = GeneralFile

----------------------------------------------------------------------------
(* Fault containment *)

\* C18: process_config_request never ends by raising to its caller
C18_NeverPropagates ==
    \A t \in Threads : result[t] # "raised"

----------------------------------------------------------------------------
(* Startup synchronisation: _fetch_remote_gateway_version and
   send_current_configuration *)

\* tb_gateway_service.DEFAULT_CONNECTORS: the known connector types, in order
DEFAULT_CONNECTORS == <<"mqtt", "modbus">>

\* connector_type.upper() + '_DEFAULT_CONFIG'
DefaultConfigKey(connector_type) ==
    CASE connector_type = "mqtt"   -> "MQTT_DEFAULT_CONFIG"
      [] connector_type = "modbus" -> "MODBUS_DEFAULT_CONFIG"

\* the while loop of line 119 gives up after this many one-second sleeps
MaxTries == 3

VersionStrings == {"0.0", "3.0", "3.2", "3.4"}

\* packaging.version.parse raises InvalidVersion: the string is no version
\* and the installed packaging has no LegacyVersion to fall back on
ParseRaises(s, packaging) == s \notin VersionStrings /\ packaging = "strict"

\* packaging.version.parse of a string, as a number that orders the
\* versions; the LegacyVersion an older packaging builds of a string that is
\* no version sorts below every version
ParseVersion(s) ==
    CASE s = "0.0" -> 0
      [] s = "3.0" -> 30
      [] s = "3.2" -> 32
      [] s = "3.4" -> 34
      [] OTHER     -> -1

\* what the server may hand to the callback of request_attributes: an error
\* without content, content without the client scope, content without the
\* Version key, content with a Version; or nothing at all
Replies ==
    {[arrives |-> TRUE, err |-> TRUE, key |-> [str |-> "None"]],
     [arrives |-> TRUE, err |-> FALSE, key |-> EmptyDict],
     [arrives |-> TRUE, err |-> FALSE, key |-> [client |-> EmptyDict]],
     [arrives |-> FALSE, err |-> FALSE, key |-> EmptyDict]}
    \cup {[arrives |-> TRUE, err |-> FALSE, key |-> [client |-> [Version |-> v]]] :
              v \in VersionStrings \ {"0.0"}}

\* callback of _fetch_remote_gateway_version, lines 95-104: the value of
\* _remote_gateway_version it leaves
callback(current, key, err) ==
    LET afterErr == IF err THEN "0.0" ELSE current IN
    IF ~IsDict(key) THEN afterErr                        \* TypeError leaves the callback
    ELSE IF Has(key, "client") /\ Has(key.client, "Version") THEN key.client.Version
    ELSE "0.0"

\* _get_general_config_in_remote_format, lines 165-180: the statistics block
\* it writes into the general configuration
RemoteStatistics(st, fs) ==
    LET statistics == st.thingsboard.statistics
        stat_conf_path == Get(statistics, "configuration", NoFile)
    IN [enable |-> statistics.enable,
        statsSendPeriodInSeconds |-> statistics.statsSendPeriodInSeconds,
        configuration |-> stat_conf_path,
        commands |-> IF stat_conf_path # NoFile THEN fs[stat_conf_path].content.commands
                     ELSE <<>>]

\* the machine state the startup sends act on
BootM == [store |-> store, files |-> files, backups |-> backups, gw |-> gw,
          trace |-> boot.sent, exc |-> "none"]

\* the server's reply reaches the callback (any time after the request)
BootCallback ==
    /\ boot.pc # "off"
    /\ boot.pending
    /\ boot' = [boot EXCEPT !.pending = FALSE,
                            !.remote_gateway_version =
                                callback(@, boot.reply.key, boot.reply.err)]
    /\ UNCHANGED <<in_process, pc, req, result, loc, store, files, backups, gw, last, net,
                   now, served>>

\* send_current_configuration, lines 190-197: the five configuration sends
BootSendConfigurations ==
    /\ boot.pc = "init"
    /\ LET M1 == [BootM EXCEPT !.store.thingsboard.statistics =
                                   RemoteStatistics(store, files)]
           M2 == SendAttributes(M1, "general_configuration", M1.store.thingsboard)
           M3 == SendAttributes(M2, "storage_configuration", M2.store.storage)
           M4 == SendAttributes(M3, "grpc_configuration", M3.store.grpc)
           M5 == SendAttributes(M4, "logs_configuration", DictUpdate(gw.logs, [ts |-> now]))
           M6 == SendAttributes(M5, "active_connectors",
                                [i \in 1..Len(store.connectors) |-> store.connectors[i].name])
       IN /\ store' = M6.store
          /\ boot' = [boot EXCEPT !.pc = "wait", !.sent = M6.trace]
    /\ UNCHANGED <<in_process, pc, req, result, loc, files, backups, gw, last, net, now, served>>

\* _send_default_connectors_config, lines 119-121: one turn of the wait loop
BootWait ==
    /\ boot.pc = "wait"
    /\ boot.remote_gateway_version = "None"
    /\ boot.try_count <= MaxTries
    /\ boot' = [boot EXCEPT !.try_count = @ + 1]
    /\ UNCHANGED <<in_process, pc, req, result, loc, store, files, backups, gw, last, net,
                   now, served>>

RECURSIVE SendDefaults(_, _, _)
\* lines 129-137: the templates found under default-configs/, one send each
SendDefaults(M, types, found) ==
    IF types = <<>> THEN M
    ELSE SendDefaults(IF Head(types) \in found
                      THEN SendAttributes(M, DefaultConfigKey(Head(types)),
                                          [template |-> Head(types)])
                      ELSE M,                              \* FileNotFoundError, logged
                      Tail(types), found)

\* lines 123-137: the loop is left, the versions are compared and the
\* templates pushed; version.parse raising leaves send_current_configuration
BootDefaults ==
    /\ boot.pc = "wait"
    /\ ~(boot.remote_gateway_version = "None" /\ boot.try_count <= MaxTries)
    /\ LET local == ParseVersion(Get(boot.version, "current_version", "0.0"))
           remote == ParseVersion(boot.remote_gateway_version)
       IN IF ParseRaises(boot.remote_gateway_version, boot.packaging)
          THEN boot' = [boot EXCEPT !.pc = "raised", !.late = boot.pending,
                                    !.compared = boot.remote_gateway_version]
          ELSE boot' = [boot EXCEPT !.pc = "version", !.late = boot.pending,
                                    !.compared = boot.remote_gateway_version,
                                    !.sent = IF local > remote
                                             THEN SendDefaults(BootM, DEFAULT_CONNECTORS,
                                                               boot.defaults).trace
                                             ELSE @]
    /\ UNCHANGED <<in_process, pc, req, result, loc, store, files, backups, gw, last, net,
                   now, served>>

RECURSIVE SendConnectors(_, _)
\* lines 199-202: one attribute per connector, keyed by its name
SendConnectors(M, connectors) ==
    IF connectors = <<>> THEN M
    ELSE SendConnectors(
             SendAttributes(M, Head(connectors).name,
                            DictUpdate(Head(connectors),
                                       [logLevel |-> Get(Head(connectors).configurationJson,
                                                         "logLevel", "INFO"),
                                        ts |-> now])),
             Tail(connectors))

\* lines 198-202: the Version attribute and the connectors
BootSendVersion ==
    /\ boot.pc = "version"
    /\ boot' = [boot EXCEPT
                   !.pc = "done",
                   !.sent = SendConnectors(
                                SendAttributes(BootM, "Version",
                                               [str |-> Get(boot.version, "current_version",
                                                            "0.0")]),
                                store.connectors).trace]
    /\ UNCHANGED <<in_process, pc, req, result, loc, store, files, backups, gw, last, net,
                   now, served>>

\* the gateway after __init__: the version request is out (line 58), and
\* nothing has been sent
StartupInit ==
    /\ InitGateway({StoreWith(<<>>), StoreWith(<<StoredConnector>>)}, {Hosts})
    /\ boot \in {[NoBoot EXCEPT !.pc = "init", !.reply = r, !.pending = r.arrives,
                                !.version = v, !.defaults = d, !.packaging = p] :
                     r \in Replies,
                     v \in {EmptyDict} \cup {[current_version |-> s] : s \in {"3.0", "3.2"}},
                     d \in SUBSET {"mqtt", "modbus"},
                     p \in {"strict", "legacy"}}

StartupNext ==
    \/ BootCallback
    \/ BootSendConfigurations
    \/ BootWait
    \/ BootDefaults
    \/ BootSendVersion

StartupSpec == StartupInit /\ [][StartupNext]_vars

\* send_current_configuration has ended, by returning or by raising
BootEnded == boot.pc \in {"done", "raised"}

\* the keys of the attributes sent so far, in order
SentKeys == [i \in 1..Len(boot.sent) |-> boot.sent[i].arg]

\* the lookup of the remote version had failed when the versions were
\* compared: an error, a reply without the Version key, or no reply by then
LookupFailed ==
    \/ ~boot.reply.arrives
    \/ boot.late
    \/ boot.reply.err
    \/ ~(Has(boot.reply.key, "client") /\ Has(boot.reply.key.client, "Version"))

\* C19: when send_current_configuration ends, the remote version that was
\* compared is "0.0" if the lookup had failed; if the local version is newer
\* than it, every known connector type with a template under
\* default-configs/ has been pushed as <TYPE>_DEFAULT_CONFIG; and the Version
\* attribute and one attribute per connector have been sent after that
C19_StartupSynchronisation ==
    BootEnded =>
        /\ LookupFailed => boot.compared = "0.0"
        /\ ParseVersion(Get(boot.version, "current_version", "0.0"))
               > ParseVersion(IF LookupFailed THEN "0.0" ELSE boot.compared)
           => \A i \in 1..Len(DEFAULT_CONNECTORS) :
                 DEFAULT_CONNECTORS[i] \in boot.defaults
                 => \E k \in 1..Len(SentKeys) :
                       SentKeys[k] = DefaultConfigKey(DEFAULT_CONNECTORS[i])
        /\ \E k \in 1..Len(SentKeys) :
              /\ SentKeys[k] = "Version"
              /\ \A i \in 1..Len(store.connectors) :
                    \E j \in (k + 1)..Len(SentKeys) : SentKeys[j] = store.connectors[i].name

----------------------------------------------------------------------------
(* Scope of the connection rollback *)

\* C20: after a general run whose connection sub-step failed and that met no
\* other error, every field of the payload outside the connection fields has
\* been applied as pushed: the scalar tunables are in the gateway's
\* configuration and in the store with the pushed values
C20_RollbackScopedToConnection ==
    /\ ConnectionFailed
    /\ last.fault = "none"
    /\ last.exc = "none"
    => \A k \in DOMAIN last.payload \ (ConnFields \cup
                                         {"statistics", "deviceFiltering", "remoteShell"}) :
          /\ gw.config[k] = last.payload[k]
          /\ store.thingsboard[k] = last.payload[k]

----------------------------------------------------------------------------
(* Sub-step reverts of the general handler *)

SubObjects == {"statistics", "deviceFiltering", "remoteShell"}

\* the sub-object of a payload the sub-step works with (lines 284, 573, 584)
Wanted(payload, f) ==
    IF f \in DOMAIN payload THEN payload[f]
    ELSE CASE f = "statistics"      -> DEFAULT_STATISTICS
           [] f = "deviceFiltering" -> DEFAULT_DEVICE_FILTERING
           [] f = "remoteShell"     -> NoRemoteShell

\* the gateway service of a sub-object refuses a configuration
Refused(f, cfg) ==
    CASE f = "statistics"      -> ~StatisticsStarts(cfg)
      [] f = "deviceFiltering" -> ~DeviceFilteringStarts(cfg)
      [] f = "remoteShell"     -> ~RemoteShellStarts(cfg)

\* the latest general run, with its connection step not reverting the
\* payload and no external call failing, applied a changed sub-object f
\* that the gateway refused
SubChangeFailed(f) ==
    /\ last.done
    /\ last.handler = "general"
    /\ last.fault = "none"
    /\ last.conn # "failed"
    /\ ~SameOpt(last.payload, last.pre.store.thingsboard, f)
    /\ Refused(f, Wanted(last.payload, f))

\* C21: when applying a sub-object fails, the run still completes and the
\* sub-object in the store and in tb_gateway.json is what it was before
C21_SubObjectReverted ==
    \A f \in SubObjects :
        SubChangeFailed(f) =>
            /\ last.exc = "none"
            /\ SameOpt(store.thingsboard, last.pre.store.thingsboard, f)
            /\ SameOpt(files[GeneralFile].content.thingsboard,
                       last.pre.store.thingsboard, f)

----------------------------------------------------------------------------
(* Updates after the startup synchronisation *)

MaxSyncedRequests == 1

SyncedRequests == RequestsOver(StorageItems)

\* send_current_configuration, then one caller pushing storage updates
SyncedNext ==
    \/ StartupNext
    \/ boot.pc = "done" /\ Receive(1, SyncedRequests, MaxSyncedRequests)
    \/ CheckInProcess(1)
    \/ SetInProcess(1)
    \/ HandleStorage(1)
    \/ EndLoop(1)
    \/ Finally(1)

SyncedSpec == StartupInit /\ [][SyncedNext]_vars

\* C22: the statistics commands are never persisted inline: the content of
\* tb_gateway.json, and everything a handler run writes to it, has no
\* commands field in its statistics sub-object
C22_CommandsNeverInline ==
    /\ "commands" \notin DOMAIN files[GeneralFile].content.thingsboard.statistics
    /\ \A w \in Calls("write") :
          last.trace[w].arg = GeneralFile
          => "commands" \notin DOMAIN last.trace[w].data.thingsboard.statistics

----------------------------------------------------------------------------
(* Properties of the active-connectors handler *)

\* the latest run was a run of the active-connectors handler that returned
ActiveConnectorsReturned ==
    /\ last.done
    /\ last.handler = "active_connectors"
    /\ last.exc = "none"

\* the names of the connectors a run closed and removed
Removed == Range(last.pre.gw.available_connectors) \ Range(gw.available_connectors)

\* C23: after the active-connectors handler returns, no connector outside
\* the received set is active, every active connector has an entry in the
\* store's connector list, and the list is pruned to the set and persisted
\* exactly when a connector was removed
C23_ActiveSetEnforced ==
    ActiveConnectorsReturned =>
        /\ Range(gw.available_connectors) \subseteq Range(last.payload.list)
        /\ \A n \in Range(gw.available_connectors) : Named(store.connectors, n) # {}
        /\ IF Removed # {}
           THEN /\ store.connectors =
                       SelectNames(last.pre.store.connectors, Range(last.payload.list))
                /\ files[GeneralFile].content = LocalFormat(store)
                /\ \E w \in Calls("write") : last.trace[w].arg = GeneralFile
           ELSE /\ store.connectors = last.pre.store.connectors
                /\ Calls("write") = {}

----------------------------------------------------------------------------
(* Connector entries and their files *)

\* C24: no two entries of the store's connector list refer to the same
\* configuration file
C24_FilesOneToOne ==
    \A i, j \in 1..Len(store.connectors) :
        store.connectors[i].configuration = store.connectors[j].configuration => i = j

----------------------------------------------------------------------------
(* Clients left behind by _apply_connection_config *)

\* the latest general run went through _apply_connection_config
ConnectionApplied ==
    /\ last.done
    /\ last.handler = "general"
    /\ last.conn \in {"new", "old", "failed"}

\* C25: when _apply_connection_config has finished, the gateway's client is
\* the one client left connecting or connected: it is started, and no other
\* client that the procedure started is still running
C25_OneClientLeft ==
    ConnectionApplied =>
        /\ gw.tb_client.running
        /\ gw.stray = last.pre.gw.stray

----------------------------------------------------------------------------
(* Re-submission of a connector payload *)

MaxResubmitDeviations == 1

ResubmitItems ==
    {Item(ConnectorPayload(c).name, ConnectorPayload(c)) :
        c \in {x \in ConnectorChoices :
                  /\ Deviations(x, StockConnector) <= MaxResubmitDeviations
                  /\ x.ts = "new"}}

ResubmitRequests == RequestsOver(ResubmitItems)

\* one caller pushing connector updates, the same one again included
ResubmitNext ==
    \/ Receive(1, ResubmitRequests, MaxRequests)
    \/ CheckInProcess(1)
    \/ SetInProcess(1)
    \/ HandleConnector(1)
    \/ EndLoop(1)
    \/ Finally(1)

ResubmitSpec == ConnectorInit /\ [][ResubmitNext]_vars

\* the latest run added or updated a connector without error, and caller t
\* is about to process the same payload again, its timestamp newer than the
\* connector's file
Resubmitted(t) ==
    /\ AtLoop(t)
    /\ last.done
    /\ last.handler = "connector"
    /\ last.fault = "none"
    /\ Calls("send") # {}
    /\ NextKey(t) = last.key
    /\ NextPayload(t) = last.payload
    /\ IsModified(NextKey(t), NextPayload(t))

\* C26: a connector payload that is submitted again after a run that
\* completed without error is found unchanged: the second run writes no file,
\* makes no backup, closes no connector and reloads nothing
C26_ResubmissionUnchanged ==
    [][\A t \in Threads :
          Resubmitted(t) /\ req'[t] = Tail(req[t]) /\ last'.fault = "none"
          => /\ files' = files
             /\ backups' = backups
             /\ \A i \in 1..Len(last'.trace) :
                   last'.trace[i].op \notin {"open_w", "write", "backup", "close", "load",
                                             "connect"}]_vars

====
